---- MODULE Spec2Model ----
(***************************************************************************)
(* A model of the tags library: the Tag value type (construction,          *)
(* classification, String/Parse) and the TagGroup container (a map from    *)
(* tag name to Tag with queries, removal and sorting).                     *)
(*                                                                         *)
(* A Go string is a sequence of one-character strings, so that TrimSpace,  *)
(* Split and Join are computed rather than assumed.  A Go slice is a       *)
(* sequence.  A Go map is a function from its key set; ranging over a map  *)
(* (maps.Values, maps.Keys) yields its entries in an order the runtime     *)
(* chooses, which is a nondeterministic choice over all permutations.      *)
(***************************************************************************)
EXTENDS Naturals, Sequences, FiniteSets

VARIABLES
    \* ---- the TagGroup under test and its caller ----
    name,      \* TagGroup.name
    tags,      \* TagGroup.tags: a function from the key set to Tag
    pc,        \* the caller: "idle" (between calls) or "returned"
    op,        \* the method whose call has just returned ("none" when idle)
    args,      \* the arguments of that call
    ret,       \* the value that call returned
    old,       \* [name, tags] of the group when that call started
    prev,      \* the call completed before this one, if it was a sort: [op, args]
    \* ---- the Tag functions under test ----
    step,      \* "start", "built", "encoded", "parsed"
    inName,    \* the name handed to the constructor
    inValues,  \* the values handed to the constructor
    ctor,      \* the constructor that was called
    t,         \* the Tag the constructor returned
    err,       \* the error the constructor returned ("nil" for none)
    str,       \* t.String()
    parsed     \* what Parse(str) returned: [tag, err]

groupVars == <<name, tags, pc, op, args, ret, old, prev>>
tagVars == <<step, inName, inValues, ctor, t, err, str, parsed>>
vars == <<groupVars, tagVars>>

----------------------------------------------------------------------------
(* Bounds *)

\* the longest variadic list of values handed to a Tag constructor
MaxVals == 3
\* the longest variadic argument list handed to a TagGroup method
MaxArgs == 2

----------------------------------------------------------------------------
(* Strings and slices *)

Whitespace == {" "}

\* all sequences over S of length at most n
SeqsUpTo(S, n) == UNION {[1..k -> S] : k \in 0..n}

Range(s) == {s[i] : i \in DOMAIN s}

\* the orders in which ranging over a map with key/value set S can yield it
\* (maps.Values, maps.Keys): every permutation
Orders(S) == {s \in [1..Cardinality(S) -> S] : \A i, j \in DOMAIN s : s[i] = s[j] => i = j}

\* strings.TrimSpace(s) == ""
IsBlank(s) == \A i \in DOMAIN s : s[i] \in Whitespace

\* slices.Contains(s, e)
SliceContains(s, e) == \E i \in DOMAIN s : s[i] = e

\* the index of the first occurrence of sep in s at or after position i, 0 if none
RECURSIVE IndexFrom(_, _, _)
IndexFrom(s, sep, i) ==
    IF i + Len(sep) - 1 > Len(s) THEN 0
    ELSE IF SubSeq(s, i, i + Len(sep) - 1) = sep THEN i
    ELSE IndexFrom(s, sep, i + 1)

\* strings.Split(s, sep): the substrings of s between the occurrences of sep;
\* an empty sep explodes s into its characters
RECURSIVE Split(_, _)
Split(s, sep) ==
    IF sep = <<>> THEN [i \in 1..Len(s) |-> <<s[i]>>]
    ELSE LET i == IndexFrom(s, sep, 1) IN
         IF i = 0 THEN <<s>>
         ELSE <<SubSeq(s, 1, i - 1)>> \o Split(SubSeq(s, i + Len(sep), Len(s)), sep)

\* strings.Join(elems, sep)
RECURSIVE Join(_, _)
Join(elems, sep) ==
    IF elems = <<>> THEN <<>>
    ELSE IF Len(elems) = 1 THEN elems[1]
    ELSE elems[1] \o sep \o Join(Tail(elems), sep)

nameValueSeparator == <<":">>
valuesSeparator == <<",">>

----------------------------------------------------------------------------
(* Tag *)

\* Tag{}: the zero value returned beside an error
ZeroTag == [name |-> <<>>, values |-> <<>>]

\* Tag.Name
Name(tag) == tag.name

\* Tag.Values
Values(tag) == IF Len(tag.values) = 0 THEN <<>> ELSE tag.values

\* Tag.IsLabel
IsLabel(tag) == Len(tag.values) = 0

\* Tag.IsSingleValue
IsSingleValue(tag) == Len(tag.values) = 0

\* Tag.IsMultiValue
IsMultiValue(tag) == Len(tag.values) > 1

\* Tag.HasName
HasName(tag, n) == tag.name = n

\* Tag.HasValues: slices.ContainsFunc over the tag's values of "is among values"
HasValuesAll(tag, values) ==
    \A i \in DOMAIN values : SliceContains(Values(tag), values[i])
HasValues(tag, values) ==
    \E i \in DOMAIN Values(tag) : SliceContains(values, Values(tag)[i])

\* Tag.String
String(tag) ==
    IF IsLabel(tag) THEN tag.name
    ELSE tag.name \o <<":">> \o Join(Values(tag), <<",">>)

\* Parse: [tag, err]
Parse(s) ==
    LET nameValues == Split(s, nameValueSeparator) IN
    CASE Len(nameValues) = 1 ->
           [tag |-> [name |-> nameValues[1], values |-> <<>>], err |-> "nil"]
      [] Len(nameValues) = 2 ->
           [tag |-> [name |-> nameValues[1],
                     values |-> Split(valuesSeparator, nameValues[2])],
            err |-> "nil"]
      [] OTHER -> [tag |-> ZeroTag, err |-> "invalid format"]

\* New: the set of [tag, err] the call can return; the values come out of
\* maps.Values(uniqueValues), in any order
New(n, values) ==
    IF IsBlank(n) THEN {[tag |-> ZeroTag, err |-> "name required"]}
    ELSE LET uniqueValues == {v \in Range(values) : ~IsBlank(v)} IN
         {[tag |-> [name |-> n, values |-> vs], err |-> "nil"] : vs \in Orders(uniqueValues)}

\* NewLabel
NewLabel(n) == New(n, <<>>)

\* NewSingleValue
NewSingleValue(n, value) ==
    {IF r.err # "nil" THEN [tag |-> ZeroTag, err |-> r.err]
     ELSE IF Len(Values(r.tag)) = 0 THEN [tag |-> ZeroTag, err |-> "value required"]
     ELSE r : r \in New(n, <<value>>)}

\* NewMultiValue
NewMultiValueAtLeastOne(n, values) ==
    {IF r.err # "nil" THEN [tag |-> ZeroTag, err |-> r.err]
     ELSE IF Len(Values(r.tag)) < 1
          THEN [tag |-> ZeroTag, err |-> "at least two unique values required"]
     ELSE r : r \in New(n, values)}
NewMultiValue(n, values) ==
    {IF r.err # "nil" THEN [tag |-> ZeroTag, err |-> r.err]
     ELSE IF Len(Values(r.tag)) < 2
          THEN [tag |-> ZeroTag, err |-> "at least two unique values required"]
     ELSE r : r \in New(n, values)}

----------------------------------------------------------------------------
(* Ordering of strings (Go compares strings bytewise) *)

Code(c) ==
    CASE c = " " -> 32 [] c = "," -> 44 [] c = "1" -> 49 [] c = "2" -> 50
      [] c = "9" -> 57 [] c = ":" -> 58 [] c = "a" -> 97 [] c = "b" -> 98
      [] c = "c" -> 99 [] c = "g" -> 103 [] c = "h" -> 104 [] c = "x" -> 120
      [] c = "y" -> 121 [] c = "z" -> 122

RECURSIVE StrLess(_, _)
StrLess(a, b) ==
    IF b = <<>> THEN FALSE
    ELSE IF a = <<>> THEN TRUE
    ELSE IF Code(Head(a)) # Code(Head(b)) THEN Code(Head(a)) < Code(Head(b))
    ELSE StrLess(Tail(a), Tail(b))

----------------------------------------------------------------------------
(* TagGroup: the map *)

\* map[string]Tag{}
EmptyMap == [k \in {} |-> ZeroTag]

\* m[k] = v
Put(m, k, v) == [x \in (DOMAIN m) \cup {k} |-> IF x = k THEN v ELSE m[x]]

\* delete(m, k)
Delete(m, k) == [x \in (DOMAIN m) \ {k} |-> m[x]]

\* the tags a map holds
Members(m) == {m[k] : k \in DOMAIN m}

\* TagGroup.Tags: maps.Values(g.tags), the set of slices the call can return
Tags(m) == {[i \in 1..Len(ks) |-> m[ks[i]]] : ks \in Orders(DOMAIN m)}

\* TagGroup.Add: the map after the call
RECURSIVE AddKeepFirst(_, _)
AddKeepFirst(m, ts) ==
    IF ts = <<>> THEN m
    ELSE AddKeepFirst(IF Head(ts).name \in DOMAIN m THEN m
                      ELSE Put(m, Head(ts).name, Head(ts)), Tail(ts))
RECURSIVE Add(_, _)
Add(m, ts) ==
    IF ts = <<>> THEN m
    ELSE Add(Put(m, Head(ts).name, Head(ts)), Tail(ts))

----------------------------------------------------------------------------
(* MatchFunc and LessFunc values.  A closure is the record of the code that *)
(* built it and what it captured:                                          *)
(*   [kind |-> "Contains", arg |-> tags]      built by TagGroup.Contains    *)
(*   [kind |-> "FindNames", arg |-> names]    by FindNames and RemoveNames  *)
(*   [kind |-> "HasValues", arg |-> values]   by Contains-, Find- and       *)
(*                                            RemoveValues                  *)
(*   [kind |-> "Remove", arg |-> tags]        built by TagGroup.Remove      *)
(*   [kind |-> "IsLabel"], [kind |-> "IsMultiValue"],                       *)
(*   [kind |-> "HasName", arg |-> name]       handed in by the caller       *)
(*   [kind |-> "SortNames", arg |-> desc]     built by TagGroup.SortNames   *)
(*   [kind |-> "FewerValues"]                 handed in by the caller       *)
(***************************************************************************)

RECURSIVE Match(_, _, _)

\* TagGroup.FindFunc: the set of slices the call can return, one per order of
\* g.Tags()
FindFunc(m, fn) == {SelectSeq(o, LAMBDA tag : Match(fn, m, tag)) : o \in Tags(m)}

\* TagGroup.Contains: the set of results the call can return
Contains(m, ts) ==
    {Len(ts) = Len(found) : found \in FindFunc(m, [kind |-> "Contains", arg |-> ts])}

\* a MatchFunc applied to a tag while the group's map is m
Match(fn, m, tag) ==
    CASE fn.kind = "Contains" ->
           \E i \in DOMAIN fn.arg :
               tag.name = fn.arg[i].name /\ Values(tag) = Values(fn.arg[i])
      [] fn.kind = "FindNames" -> SliceContains(fn.arg, Name(tag))
      [] fn.kind = "HasValues" -> HasValues(tag, fn.arg)
      [] fn.kind = "Remove" ->
           \* the inner closure's parameter shadows tag: it tests g.Contains
           \* of each supplied tag against the map as it is now
           \E i \in DOMAIN fn.arg : TRUE \in Contains(m, <<fn.arg[i]>>)
      [] fn.kind = "IsLabel" -> IsLabel(tag)
      [] fn.kind = "IsMultiValue" -> IsMultiValue(tag)
      [] fn.kind = "HasName" -> HasName(tag, fn.arg)

\* TagGroup.FindNames
FindNames(m, names) == FindFunc(m, [kind |-> "FindNames", arg |-> names])

\* TagGroup.ContainsNames
ContainsNames(m, names) == {Len(names) = Len(found) : found \in FindNames(m, names)}

\* TagGroup.ContainsFunc
ContainsFunc(m, fn) == {Len(found) # 0 : found \in FindFunc(m, fn)}

\* TagGroup.ContainsValues
ContainsValues(m, values) == ContainsFunc(m, [kind |-> "HasValues", arg |-> values])

\* TagGroup.FindValues
FindValues(m, values) == FindFunc(m, [kind |-> "HasValues", arg |-> values])

\* the loop of RemoveFunc over the slice o that g.Tags() returned
RECURSIVE RemoveLoop(_, _, _)
RemoveLoop(m, o, fn) ==
    IF o = <<>> THEN m
    ELSE RemoveLoop(IF Match(fn, m, Head(o)) THEN Delete(m, Head(o).name) ELSE m,
                    Tail(o), fn)

\* the loop, were it to stop at the first deletion
RECURSIVE RemoveLoopFirst(_, _, _)
RemoveLoopFirst(m, o, fn) ==
    IF o = <<>> THEN m
    ELSE IF Match(fn, m, Head(o)) THEN Delete(m, Head(o).name)
    ELSE RemoveLoopFirst(m, Tail(o), fn)

\* TagGroup.RemoveFunc: the set of maps the call can leave
RemoveFuncFirst(m, fn) == {RemoveLoopFirst(m, o, fn) : o \in Tags(m)}
RemoveFunc(m, fn) == {RemoveLoop(m, o, fn) : o \in Tags(m)}

\* TagGroup.Remove
Remove(m, ts) == RemoveFunc(m, [kind |-> "Remove", arg |-> ts])

\* TagGroup.RemoveNames
RemoveNames(m, names) == RemoveFunc(m, [kind |-> "FindNames", arg |-> names])

\* TagGroup.RemoveValues
RemoveValues(m, values) == RemoveFunc(m, [kind |-> "HasValues", arg |-> values])

\* a LessFunc applied to two tags
Less(fn, tag1, tag2) ==
    CASE fn.kind = "SortNames" ->
           IF fn.arg THEN StrLess(Name(tag2), Name(tag1))
           ELSE StrLess(Name(tag1), Name(tag2))
      [] fn.kind = "FewerValues" -> Len(Values(tag1)) < Len(Values(tag2))

\* slices.SortStableFunc: s sorted by fn, equal elements in their order in s
RECURSIVE InsertSorted(_, _, _)
InsertSorted(s, x, fn) ==
    IF s = <<>> THEN <<x>>
    ELSE IF Less(fn, x, Head(s)) THEN <<x>> \o s
    ELSE <<Head(s)>> \o InsertSorted(Tail(s), x, fn)
RECURSIVE SortStableFunc(_, _)
SortStableFunc(s, fn) ==
    IF s = <<>> THEN <<>>
    ELSE InsertSorted(SortStableFunc(SubSeq(s, 1, Len(s) - 1), fn), s[Len(s)], fn)

\* TagGroup.SortFunc: the set of maps the call can leave.  It sorts the slice
\* that g.Tags() returned, a copy of the map's values that nothing else holds.
SortFunc(m, fn) == {m : sorted \in {SortStableFunc(o, fn) : o \in Tags(m)}}

\* TagGroup.SortNames
SortNames(m, desc) == SortFunc(m, [kind |-> "SortNames", arg |-> desc])

\* TagGroup.Rename: [name, err]
Rename(n, newName) ==
    IF IsBlank(newName) THEN [name |-> n, err |-> "name required"]
    ELSE [name |-> newName, err |-> "nil"]

\* TagGroup{}
ZeroGroup == [name |-> <<>>, tags |-> EmptyMap]

\* NewGroup: [group, err]
NewGroup(n, ts) ==
    LET r == Rename(ZeroGroup.name, n) IN
    IF r.err # "nil" THEN [group |-> ZeroGroup, err |-> r.err]
    ELSE [group |-> [name |-> r.name, tags |-> Add(EmptyMap, ts)], err |-> "nil"]

----------------------------------------------------------------------------
(* The inputs the callers draw from *)

\* group names handed to NewGroup and Rename
GroupNames == {<<>>, <<" ">>, <<"g">>, <<"h">>}

\* the names and values of the tags handed to the group
TagNames == {<<"x">>, <<"y">>}
TagValues == {<<"1">>, <<"2">>}

\* the tags handed to the group: everything New can return for these names
\* and values
TagPool ==
    {r.tag : r \in UNION {New(n, vs) : n \in TagNames,
                                       vs \in UNION {Orders(S) : S \in SUBSET TagValues}}}

\* the names and values the group is queried with
QueryNames == TagNames \cup {<<"z">>}
QueryValues == TagValues \cup {<<"9">>}

\* the predicates and orders the caller hands to the *Func methods
CallerMatchFuncs ==
    {[kind |-> "IsLabel"], [kind |-> "IsMultiValue"]}
        \cup {[kind |-> "HasName", arg |-> n] : n \in TagNames}
CallerLessFuncs == {[kind |-> "FewerValues"]}

\* names and values handed to the Tag constructors
CtorNames == {<<>>, <<" ">>, <<"a">>, <<"a", ":">>}
CtorValues == {<<>>, <<" ">>, <<"b">>, <<"c">>, <<" ", "b">>, <<"b", ",", "c">>}

----------------------------------------------------------------------------
(* The TagGroup and its caller *)

NoCall == [op |-> "none", args |-> <<>>]

\* the Tag functions' variables at rest
TagIdle ==
    /\ step = "start" /\ inName = <<>> /\ inValues = <<>> /\ ctor = "none"
    /\ t = ZeroTag /\ err = "nil" /\ str = <<>> /\ parsed = [tag |-> ZeroTag, err |-> "nil"]

\* the group after a successful NewGroup(n, ts)
Init ==
    /\ \E n \in GroupNames, ts \in SeqsUpTo(TagPool, MaxArgs) :
          LET r == NewGroup(n, ts) IN
          /\ r.err = "nil"
          /\ name = r.group.name
          /\ tags = r.group.tags
          /\ args = ts
    /\ pc = "returned"
    /\ op = "NewGroup"
    /\ ret = "nil"
    /\ old = ZeroGroup
    /\ prev = NoCall
    /\ TagIdle

\* a call of method o with arguments a returns r and leaves the group (n2, m2)
Call(o, a, r, n2, m2) ==
    /\ pc' = "returned"
    /\ op' = o
    /\ args' = a
    /\ ret' = r
    /\ name' = n2
    /\ tags' = m2
    /\ old' = [name |-> name, tags |-> tags]
    /\ UNCHANGED <<prev, tagVars>>

\* the caller takes the result and goes on to its next call
Return ==
    /\ pc = "returned"
    /\ pc' = "idle"
    /\ prev' = IF op \in {"SortNames", "SortFunc"} THEN [op |-> op, args |-> args] ELSE NoCall
    /\ op' = "none"
    /\ args' = <<>>
    /\ ret' = "void"
    /\ old' = [name |-> name, tags |-> tags]
    /\ UNCHANGED <<name, tags, tagVars>>

CallRename ==
    /\ pc = "idle"
    /\ \E newName \in GroupNames :
           LET r == Rename(name, newName) IN Call("Rename", <<newName>>, r.err, r.name, tags)

CallTags ==
    /\ pc = "idle"
    /\ \E r \in Tags(tags) : Call("Tags", <<>>, r, name, tags)

CallAdd ==
    /\ pc = "idle"
    /\ \E ts \in SeqsUpTo(TagPool, MaxArgs) : Call("Add", ts, "void", name, Add(tags, ts))

CallContains ==
    /\ pc = "idle"
    /\ \E ts \in SeqsUpTo(TagPool, MaxArgs) :
           \E r \in Contains(tags, ts) : Call("Contains", ts, r, name, tags)

CallContainsNames ==
    /\ pc = "idle"
    /\ \E names \in SeqsUpTo(QueryNames, MaxArgs) :
           \E r \in ContainsNames(tags, names) : Call("ContainsNames", names, r, name, tags)

CallContainsValues ==
    /\ pc = "idle"
    /\ \E values \in SeqsUpTo(QueryValues, MaxArgs) :
           \E r \in ContainsValues(tags, values) : Call("ContainsValues", values, r, name, tags)

CallContainsFunc ==
    /\ pc = "idle"
    /\ \E fn \in CallerMatchFuncs :
           \E r \in ContainsFunc(tags, fn) : Call("ContainsFunc", <<fn>>, r, name, tags)

CallFindNames ==
    /\ pc = "idle"
    /\ \E names \in SeqsUpTo(QueryNames, MaxArgs) :
           \E r \in FindNames(tags, names) : Call("FindNames", names, r, name, tags)

CallFindValues ==
    /\ pc = "idle"
    /\ \E values \in SeqsUpTo(QueryValues, MaxArgs) :
           \E r \in FindValues(tags, values) : Call("FindValues", values, r, name, tags)

CallFindFunc ==
    /\ pc = "idle"
    /\ \E fn \in CallerMatchFuncs :
           \E r \in FindFunc(tags, fn) : Call("FindFunc", <<fn>>, r, name, tags)

CallRemove ==
    /\ pc = "idle"
    /\ \E ts \in SeqsUpTo(TagPool, MaxArgs) :
           \E m2 \in Remove(tags, ts) : Call("Remove", ts, "void", name, m2)

CallRemoveNames ==
    /\ pc = "idle"
    /\ \E names \in SeqsUpTo(QueryNames, MaxArgs) :
           \E m2 \in RemoveNames(tags, names) : Call("RemoveNames", names, "void", name, m2)

CallRemoveValues ==
    /\ pc = "idle"
    /\ \E values \in SeqsUpTo(QueryValues, MaxArgs) :
           \E m2 \in RemoveValues(tags, values) : Call("RemoveValues", values, "void", name, m2)

CallRemoveFunc ==
    /\ pc = "idle"
    /\ \E fn \in CallerMatchFuncs :
           \E m2 \in RemoveFunc(tags, fn) : Call("RemoveFunc", <<fn>>, "void", name, m2)

CallSortNames ==
    /\ pc = "idle"
    /\ \E desc \in BOOLEAN :
           \E m2 \in SortNames(tags, desc) : Call("SortNames", <<desc>>, "void", name, m2)

CallSortFunc ==
    /\ pc = "idle"
    /\ \E fn \in CallerLessFuncs :
           \E m2 \in SortFunc(tags, fn) : Call("SortFunc", <<fn>>, "void", name, m2)

Next ==
    \/ Return
    \/ CallRename
    \/ CallTags
    \/ CallAdd
    \/ CallContains
    \/ CallContainsNames
    \/ CallContainsValues
    \/ CallContainsFunc
    \/ CallFindNames
    \/ CallFindValues
    \/ CallFindFunc
    \/ CallRemove
    \/ CallRemoveNames
    \/ CallRemoveValues
    \/ CallRemoveFunc
    \/ CallSortNames
    \/ CallSortFunc

Spec == Init /\ [][Next]_vars

----------------------------------------------------------------------------
(* The Tag functions and their caller *)

\* the group's variables at rest
GroupIdle ==
    /\ name = <<"g">> /\ tags = EmptyMap /\ pc = "idle" /\ op = "none"
    /\ args = <<>> /\ ret = "void" /\ old = [name |-> <<"g">>, tags |-> EmptyMap]
    /\ prev = NoCall

InitTag ==
    /\ inName \in CtorNames
    /\ inValues \in SeqsUpTo(CtorValues, MaxVals)
    /\ step = "start"
    /\ ctor = "none"
    /\ t = ZeroTag
    /\ err = "nil"
    /\ str = <<>>
    /\ parsed = [tag |-> ZeroTag, err |-> "nil"]
    /\ GroupIdle

\* constructor c returned r
Built(c, r) ==
    /\ step = "start"
    /\ step' = "built"
    /\ ctor' = c
    /\ t' = r.tag
    /\ err' = r.err
    /\ UNCHANGED <<inName, inValues, str, parsed, groupVars>>

CallNew ==
    \E r \in New(inName, inValues) : Built("New", r)

CallNewLabel ==
    /\ inValues = <<>>
    /\ \E r \in NewLabel(inName) : Built("NewLabel", r)

CallNewSingleValue ==
    /\ Len(inValues) = 1
    /\ \E r \in NewSingleValue(inName, inValues[1]) : Built("NewSingleValue", r)

CallNewMultiValue ==
    \E r \in NewMultiValue(inName, inValues) : Built("NewMultiValue", r)

\* t.String() of a tag a constructor returned without error
CallString ==
    /\ step = "built"
    /\ err = "nil"
    /\ step' = "encoded"
    /\ str' = String(t)
    /\ UNCHANGED <<inName, inValues, ctor, t, err, parsed, groupVars>>

\* Parse of that string
CallParse ==
    /\ step = "encoded"
    /\ step' = "parsed"
    /\ parsed' = Parse(str)
    /\ UNCHANGED <<inName, inValues, ctor, t, err, str, groupVars>>

NextTag ==
    \/ CallNew
    \/ CallNewLabel
    \/ CallNewSingleValue
    \/ CallNewMultiValue
    \/ CallString
    \/ CallParse

SpecTag == InitTag /\ [][NextTag]_vars

----------------------------------------------------------------------------
(* Properties *)

\* two tags with the same name and the same set of values
SameTag(a, b) == a.name = b.name /\ Range(a.values) = Range(b.values)

\* map m cut down to the keys in ks
Restrict(m, ks) == [k \in ks |-> m[k]]

\* the last tag of ts named n
LastNamed(ts, n) ==
    ts[CHOOSE i \in DOMAIN ts :
          ts[i].name = n /\ \A j \in DOMAIN ts : ts[j].name = n => j <= i]

\* the members of m that have at least one of the values
WithAnyValue(m, values) == {x \in Members(m) : Range(x.values) \cap Range(values) # {}}

\* s has none of the separators String writes
NoSeparator(s) == \A i \in DOMAIN s : s[i] \notin {":", ","}

\* C1: the group never holds two tags with the same name, and right after
\* Add(ts) (and NewGroup(_, ts)) the member with each supplied name is the last
\* tag of ts with that name
C1_UniqueNamesLastWins ==
    /\ \A k1, k2 \in DOMAIN tags : tags[k1].name = tags[k2].name => k1 = k2
    /\ (pc = "returned" /\ op \in {"Add", "NewGroup"}) =>
           \A i \in DOMAIN args :
               {x \in Members(tags) : x.name = args[i].name}
                   = {LastNamed(args, args[i].name)}

\* C1 witness: Add of two different tags with the name of a third, existing
\* member has returned
C1_Witness ==
    /\ pc = "returned" /\ op = "Add" /\ Len(args) = 2
    /\ args[1].name = args[2].name /\ args[1] # args[2]
    /\ args[1].name \in DOMAIN old.tags
    /\ old.tags[args[1].name] \notin {args[1], args[2]}
    /\ tags[args[1].name] = args[2]

\* C2: a Tags() call that directly follows SortNames(desc) or SortFunc(less)
\* returns the members in that order
C2_TagsSortedAfterSort ==
    (pc = "returned" /\ op = "Tags" /\ prev.op \in {"SortNames", "SortFunc"}) =>
        \A i, j \in DOMAIN ret :
            i < j =>
                IF prev.op = "SortNames"
                THEN IF prev.args[1] THEN StrLess(ret[j].name, ret[i].name)
                     ELSE StrLess(ret[i].name, ret[j].name)
                ELSE ~Less(prev.args[1], ret[j], ret[i])

\* C3: Remove(ts) leaves exactly the members that match no tag of ts by name
\* and values, whatever the order the map was ranged over
C3_RemoveExactlyMatching ==
    (pc = "returned" /\ op = "Remove") =>
        tags = Restrict(old.tags,
                        {k \in DOMAIN old.tags :
                            ~\E i \in DOMAIN args : SameTag(old.tags[k], args[i])})

\* C4: Contains(ts) is true iff every tag of ts has a member with its name and
\* its set of values
C4_ContainsIffAllMatch ==
    (pc = "returned" /\ op = "Contains") =>
        (ret <=> \A i \in DOMAIN args : \E x \in Members(tags) : SameTag(x, args[i]))

\* C5: ContainsNames(names) is true iff every name is the name of a member
C5_ContainsNamesIffAllPresent ==
    (pc = "returned" /\ op = "ContainsNames") =>
        (ret <=> \A i \in DOMAIN args : \E x \in Members(tags) : x.name = args[i])

\* C6: Parse(t.String()) of a tag built by NewLabel, NewSingleValue or
\* NewMultiValue from a name and values without ':' and ',' succeeds with
\* t's name and t's set of values
C6_ParseStringRoundTrip ==
    (/\ step = "parsed"
     /\ ctor \in {"NewLabel", "NewSingleValue", "NewMultiValue"}
     /\ NoSeparator(t.name)
     /\ \A i \in DOMAIN t.values : NoSeparator(t.values[i])) =>
        /\ parsed.err = "nil"
        /\ parsed.tag.name = t.name
        /\ Range(parsed.tag.values) = Range(t.values)

\* C7: of IsLabel, IsSingleValue and IsMultiValue exactly one is true of a
\* tag: the one for its number of values (none, one, two or more)
C7_ExactlyOneClass ==
    (step = "built" /\ err = "nil") =>
        /\ IsLabel(t) <=> Len(t.values) = 0
        /\ IsSingleValue(t) <=> Len(t.values) = 1
        /\ IsMultiValue(t) <=> Len(t.values) >= 2
        /\ Cardinality({c \in {"label", "single", "multi"} :
                           \/ c = "label" /\ IsLabel(t)
                           \/ c = "single" /\ IsSingleValue(t)
                           \/ c = "multi" /\ IsMultiValue(t)}) = 1

\* C8: RemoveFunc(p) leaves exactly the members that do not satisfy p, each as
\* it was, and the group's name; RemoveNames(names) does so for "named in names"
C8_RemoveFuncExact ==
    /\ (pc = "returned" /\ op = "RemoveFunc") =>
           /\ name = old.name
           /\ tags = Restrict(old.tags,
                              {k \in DOMAIN old.tags : ~Match(args[1], old.tags, old.tags[k])})
    /\ (pc = "returned" /\ op = "RemoveNames") =>
           /\ name = old.name
           /\ tags = Restrict(old.tags,
                              {k \in DOMAIN old.tags : old.tags[k].name \notin Range(args)})

\* C8 witness: RemoveNames("x") on a group of x and y has left only y
C8_Witness ==
    /\ pc = "returned" /\ op = "RemoveNames" /\ args = << <<"x">> >>
    /\ DOMAIN old.tags = {<<"x">>, <<"y">>}
    /\ DOMAIN tags = {<<"y">>}
    /\ tags[<<"y">>] = old.tags[<<"y">>]

C10_NewMultiValue ==
    (step = "built" /\ ctor = "NewMultiValue") =>
        LET distinct == {v \in Range(inValues) : ~IsBlank(v)} IN
        IF IsBlank(inName) \/ Cardinality(distinct) < 2
        THEN err # "nil"
        ELSE /\ err = "nil"
             /\ t.name = inName
             /\ Range(t.values) = distinct
             /\ Len(t.values) = Cardinality(distinct)

\* C10 witness: NewMultiValue("a", "b", "b", "c") has returned a tag of two
\* values
C10_Witness ==
    /\ step = "built" /\ ctor = "NewMultiValue"
    /\ inName = <<"a">> /\ inValues = << <<"b">>, <<"b">>, <<"c">> >>
    /\ err = "nil" /\ Len(t.values) = 2

====
